---- MODULE Spec2Model ----
(***************************************************************************)
(* Model of the pipeline orchestration engine of ai-research-assistant:    *)
(* the PipelineLock (src/pipeline.py), the SQLite state store              *)
(* (src/database.py), the feed collaborator's filter (src/feed_manager.py) *)
(* and run_pipeline / _run_pipeline_inner (src/pipeline.py).               *)
(***************************************************************************)
EXTENDS Integers, Sequences, FiniteSets, TLC

(***************************************************************************)
(* Bounds of the model.                                                    *)
(***************************************************************************)
MaxInvocations == 2
MaxTime == 1
MaxFeed == 1
\* Runs of the process that keeps failing on one entry.
MaxRetryRuns == 6
\* Hours on the clock, and failures in a row, of the store taken alone.
MaxClock == 4
MaxStreak == 5
\* Notes created by the run whose post-processing is looked at.
MaxNotes == 13

(***************************************************************************)
(* Universe: lock handles (one PipelineLock object per process), the       *)
(* processes that execute run_pipeline, entry guids.                       *)
(***************************************************************************)
None == "None"
\* None where the other values are integers (pid, limit, row id, timestamp).
NoInt == -1
Handles == {"p1", "p2", "p3"}
Runs == {"p1", "p2"}
Guids == {"g1", "g2"}

\* os.getpid() of the process owning each handle (different digit counts).
getpid == [h \in Handles |-> CASE h = "p1" -> 7 [] h = "p2" -> 12 [] OTHER -> 305]

VARIABLES
    \* ---- PipelineLock / lock file -------------------------------------
    lockFile,       \* bytes of data/pipeline.lock, as a sequence of digits
    flockHeld,      \* handles whose open file description holds LOCK_EX
    fd,             \* PipelineLock._fd per handle: None or "open"
    lpos,           \* position of each handle inside acquire()
    lockErr         \* PipelineLockError raised by the last acquire(), if any, and its pid

lockVars == <<lockFile, flockHeld, fd, lpos, lockErr>>

VARIABLES
    \* ---- State store (SQLite tables) and the clock -----------------------
    now,                \* CURRENT_TIMESTAMP, in hours
    processed_entries,  \* rows of processed_entries, in rowid order
    retry_queue,        \* rows of retry_queue, in rowid order
    pipeline_runs,      \* rows of pipeline_runs; the row's index is its id
    \* ---- What happened to the retry queue, per guid ----------------------
    streak,             \* add_to_retry_queue calls since the guid last succeeded
                        \* (counted up to MaxStreak + 1)
    abandoned           \* per guid, the invocation count at which add_to_retry_queue
                        \* deleted its row (lines 173-177), NoInt if it never did

storeVars == <<now, processed_entries, retry_queue, pipeline_runs, streak, abandoned>>

VARIABLES
    \* ---- One run_pipeline invocation per process -------------------------
    pc,             \* position of each invocation
    run,            \* arguments and local variables of run_pipeline / _run_pipeline_inner
    outcome,        \* how run_pipeline ended: "none", "returned", "raised", "PipelineLockError"
    hist,           \* phases the invocation went through, in order
    wrote,          \* tables the invocation has written to
    lastCall,       \* the latest run_skill invocation and the store's view of its guid
    invocations,    \* number of run_pipeline invocations started so far
    skillCall       \* the latest call of SkillRunner.run_skill taken alone: what the
                    \* command did, and what the call returned or raised

runVars == <<pc, run, outcome, hist, wrote, lastCall, invocations, skillCall>>

(***************************************************************************)
(* Conversions between a pid and the bytes stored in the lock file.        *)
(***************************************************************************)
RECURSIVE str(_)
\* str(os.getpid()).encode(): decimal digits, most significant first.
str(n) == IF n < 10 THEN <<n>> ELSE Append(str(n \div 10), n % 10)

RECURSIVE int(_)
\* int(content) on a non-empty string of decimal digits.
int(s) == IF Len(s) = 0 THEN 0 ELSE 10 * int(SubSeq(s, 1, Len(s) - 1)) + s[Len(s)]

\* os.pread(fd, n, 0): the first n bytes of the file.
pread(file, n) == SubSeq(file, 1, IF Len(file) < n THEN Len(file) ELSE n)

\* os.pwrite(fd, data, 0): data overwrites the file's prefix, the rest stays.
pwrite(file, data) == data \o SubSeq(file, Len(data) + 1, Len(file))

\* os.ftruncate(fd, 0)
ftruncateMutant(file) == file
ftruncate(file) == << >>

\* pipeline.py 46-52: content read from the lock file -> pid or None.
ReadPid(file) ==
    LET content == pread(file, 32)
    IN  IF content # << >> THEN int(content) ELSE NoInt

(***************************************************************************)
(* PipelineLock.acquire(), one action per system call.                     *)
(***************************************************************************)
NoError == [raised |-> FALSE, pid |-> NoInt]

\* line 41: self._fd = os.open(lock_path, O_CREAT | O_RDWR)
AcqOpen(h) ==
    /\ lpos[h] = "out" /\ fd[h] = None
    /\ fd' = [fd EXCEPT ![h] = "open"]
    /\ lpos' = [lpos EXCEPT ![h] = "opened"]
    /\ lockErr' = [lockErr EXCEPT ![h] = NoError]
    /\ UNCHANGED <<lockFile, flockHeld>>

FlockFailsMutant(h) == FALSE
\* flock(LOCK_EX | LOCK_NB) fails when another open file description holds it.
FlockFails(h) == flockHeld # {}

\* line 43: fcntl.flock(self._fd, LOCK_EX | LOCK_NB)
AcqFlock(h) ==
    /\ lpos[h] = "opened"
    /\ IF FlockFails(h)
         THEN /\ lpos' = [lpos EXCEPT ![h] = "denied"]
              /\ UNCHANGED flockHeld
         ELSE /\ lpos' = [lpos EXCEPT ![h] = "locked"]
              /\ flockHeld' = flockHeld \cup {h}
    /\ UNCHANGED <<lockFile, fd, lockErr>>

\* lines 44-55: read the holder's pid, close the descriptor, raise.
AcqRaise(h) ==
    /\ lpos[h] = "denied"
    /\ lockErr' = [lockErr EXCEPT ![h] = [raised |-> TRUE, pid |-> ReadPid(lockFile)]]
    /\ fd' = [fd EXCEPT ![h] = None]
    /\ lpos' = [lpos EXCEPT ![h] = "out"]
    /\ UNCHANGED <<lockFile, flockHeld>>

\* line 57: os.ftruncate(self._fd, 0)
AcqFtruncate(h) ==
    /\ lpos[h] = "locked"
    /\ lockFile' = ftruncate(lockFile)
    /\ lpos' = [lpos EXCEPT ![h] = "truncated"]
    /\ UNCHANGED <<flockHeld, fd, lockErr>>

\* line 58: os.pwrite(self._fd, str(os.getpid()).encode(), 0)
AcqPwrite(h) ==
    /\ lpos[h] = "truncated"
    /\ lockFile' = pwrite(lockFile, str(getpid[h]))
    /\ lpos' = [lpos EXCEPT ![h] = "out"]
    /\ UNCHANGED <<flockHeld, fd, lockErr>>

\* PipelineLock.release(): LOCK_UN and close when _fd is set, else nothing.
release(h) ==
    /\ lpos[h] = "out"
    /\ IF fd[h] # None
         THEN /\ flockHeld' = flockHeld \ {h}
              /\ fd' = [fd EXCEPT ![h] = None]
         ELSE UNCHANGED <<flockHeld, fd>>
    /\ UNCHANGED <<lockFile, lpos, lockErr>>

\* A handle that completed acquire() and has not released.
Holds(h) == h \in flockHeld /\ lpos[h] = "out"

(***************************************************************************)
(* Database (src/database.py): each method as a function of the table.     *)
(***************************************************************************)
is_processedMutant(pe, guid) == FALSE
\* Database.is_processed: SELECT 1 FROM processed_entries WHERE entry_guid = ?
is_processed(pe, guid) == \E i \in 1..Len(pe) : pe[i].entry_guid = guid

mark_processed_raisesMutant(pe, guid) == FALSE
\* processed_entries.entry_guid is UNIQUE: the INSERT of a guid that is
\* already there raises sqlite3.IntegrityError.
mark_processed_raises(pe, guid) == is_processed(pe, guid)

\* Database.mark_processed: INSERT INTO processed_entries (...)
mark_processed(pe, guid, note_path) ==
    Append(pe, [entry_guid |-> guid, note_path |-> note_path])

\* Database.record_run_start: INSERT INTO pipeline_runs (status) VALUES ('running')
record_run_start(runs) ==
    Append(runs, [status |-> "running", completed_at |-> NoInt,
                  items_processed |-> 0, items_failed |-> 0])

\* Database.record_run_complete: UPDATE pipeline_runs SET ... WHERE id = ?
record_run_complete(runs, id, processed, failed, t) ==
    [i \in 1..Len(runs) |->
        IF i = id
          THEN [status |-> "completed", completed_at |-> t,
                items_processed |-> processed, items_failed |-> failed]
          ELSE runs[i]]

\* Database.record_run_complete never raises: an UPDATE that matches no row
\* is not an error in SQLite and the cursor's rowcount is not looked at.
record_run_complete_raises(runs, id) == FALSE

\* The completion times of the rows with status 'completed'.
CompletedTimes(runs) ==
    {runs[i].completed_at : i \in {j \in 1..Len(runs) : runs[j].status = "completed"}}

get_last_successful_runMutant(runs) ==
    IF CompletedTimes(runs) = {} THEN NoInt
    ELSE CHOOSE t \in CompletedTimes(runs) : \A u \in CompletedTimes(runs) : t <= u
\* Database.get_last_successful_run: SELECT completed_at FROM pipeline_runs
\* WHERE status = 'completed' ORDER BY completed_at DESC LIMIT 1, or None.
get_last_successful_run(runs) ==
    IF CompletedTimes(runs) = {} THEN NoInt
    ELSE CHOOSE t \in CompletedTimes(runs) : \A u \in CompletedTimes(runs) : t >= u

BACKOFF_HOURSMutant == <<4, 1, 12, 24>>
\* Database.BACKOFF_HOURS
BACKOFF_HOURS == <<1, 4, 12, 24>>

\* SELECT retry_count FROM retry_queue WHERE entry_guid = ?  (the row's index, 0 if absent)
RetryIndex(rq, guid) ==
    IF \E i \in 1..Len(rq) : rq[i].entry_guid = guid
      THEN CHOOSE i \in 1..Len(rq) : rq[i].entry_guid = guid
      ELSE 0

\* Database.remove_from_retry_queue: DELETE FROM retry_queue WHERE entry_guid = ?
remove_from_retry_queue(rq, guid) ==
    LET Keep(row) == row.entry_guid # guid IN SelectSeq(rq, Keep)

GivesUpMutant(rq, guid) ==
    LET k == RetryIndex(rq, guid)
    IN  k # 0 /\ rq[k].retry_count + 1 >= Len(BACKOFF_HOURS) - 1
\* add_to_retry_queue lines 171-177: the call deletes the guid's row (gives up).
GivesUp(rq, guid) ==
    LET k == RetryIndex(rq, guid)
    IN  k # 0 /\ rq[k].retry_count + 1 >= Len(BACKOFF_HOURS)

add_to_retry_queueMutant(rq, guid, error, t) ==
    Append(rq, [entry_guid |-> guid, retry_count |-> 0,
                last_attempt_at |-> t,
                next_retry_at |-> t + BACKOFF_HOURS[1],
                last_error |-> error])
\* Database.add_to_retry_queue at time t.
add_to_retry_queue(rq, guid, error, t) ==
    LET k == RetryIndex(rq, guid) IN
    IF k # 0
      THEN LET retry_count == rq[k].retry_count + 1 IN
           IF GivesUp(rq, guid)
             THEN remove_from_retry_queue(rq, guid)
             ELSE [rq EXCEPT ![k] = [@ EXCEPT !.retry_count = retry_count,
                                              !.last_attempt_at = t,
                                              !.next_retry_at = t + BACKOFF_HOURS[retry_count + 1],
                                              !.last_error = error]]
      ELSE Append(rq, [entry_guid |-> guid, retry_count |-> 0,
                       last_attempt_at |-> t,
                       next_retry_at |-> t + BACKOFF_HOURS[1],
                       last_error |-> error])

\* A call of db.add_to_retry_queue(guid, error) on the store, at the current time.
RecordFailure(guid, error) ==
    /\ retry_queue' = add_to_retry_queue(retry_queue, guid, error, now)
    /\ streak' = [streak EXCEPT ![guid] = IF @ > MaxStreak THEN @ ELSE @ + 1]
    /\ abandoned' = IF GivesUp(retry_queue, guid)
                       THEN [abandoned EXCEPT ![guid] = invocations]
                       ELSE abandoned

RECURSIVE OrderByNextRetry(_)
\* ORDER BY next_retry_at: ascending, rows of equal time in rowid order.
OrderByNextRetry(rows) ==
    IF rows = << >> THEN << >>
    ELSE LET i == CHOOSE i \in 1..Len(rows) :
                     \A j \in 1..Len(rows) :
                        \/ rows[i].next_retry_at < rows[j].next_retry_at
                        \/ rows[i].next_retry_at = rows[j].next_retry_at /\ i <= j
         IN  <<rows[i]>> \o OrderByNextRetry(SubSeq(rows, 1, i - 1) \o SubSeq(rows, i + 1, Len(rows)))

IsDueMutant(row, t) == TRUE
\* A retry row is due at time t.
IsDue(row, t) == row.next_retry_at <= t

\* Database.get_retry_candidates at time t:
\* SELECT * FROM retry_queue WHERE next_retry_at <= CURRENT_TIMESTAMP ORDER BY next_retry_at
get_retry_candidates(rq, t) ==
    LET Due(row) == IsDue(row, t) IN OrderByNextRetry(SelectSeq(rq, Due))

(***************************************************************************)
(* Entries.  content stands for the fields a retry row does not keep       *)
(* (content, author, published_at, feed_title): "" when they are all empty.*)
(***************************************************************************)
Entries == [guid : Guids, content : {"", "text"}]

\* What the feeds list at one fetch: any sequence of at most MaxFeed entries.
FeedListings == UNION {[1..n -> Entries] : n \in 0..MaxFeed}

\* pipeline.py 139-154: a retry row converted to an Entry.
RetryEntry(row) == [guid |-> row.entry_guid, content |-> ""]

\* Entry.__eq__: two entries are equal when all their fields are.
EntryEq(a, b) == a = b

\* line 175, `entry in retry_entries`: list membership by Entry equality.
EntryIn(entry, entries) == \E i \in 1..Len(entries) : EntryEq(entries[i], entry)

\* FeedManager.fetch_new_entries: the listed entries that are not processed yet.
fetch_new_entries(pe, listing) ==
    LET New(e) == ~is_processed(pe, e.guid) IN SelectSeq(listing, New)

\* pipeline.py 158-160: all_entries[:limit]
ApplyLimit(entries, limit) ==
    IF limit # NoInt /\ limit < Len(entries) THEN SubSeq(entries, 1, limit) ELSE entries

\* PipelineResult()
PipelineResult ==
    [processed |-> 0, failed |-> 0, retried |-> 0, skipped |-> 0,
     permanent_failures |-> 0, created_notes |-> << >>, failures |-> << >>]

\* Fields of the SkillResult dataclass (skill_runner.py 11-19).
SkillResultFields == {"success", "note_path", "error", "stdout", "stderr"}

(***************************************************************************)
(* SkillRunner.run_skill (skill_runner.py 65-141) as a function of what    *)
(* the external command did.                                               *)
(***************************************************************************)
\* How subprocess.run ended: it raised one of these, or the command exited.
Launches == {"TimeoutExpired", "FileNotFoundError", "PermissionError", "exited"}
ReturnCodes == {0, 1, 2}
Stdouts == {"", "Done.", "Saved to **Clippings/Title.md**"}
Stderrs == {"", "access denied"}

\* One invocation of the command: how it ended, its exit code and output,
\* and whether the file it names is there afterwards.
Executions ==
    [launch : Launches, returncode : ReturnCodes, stdout : Stdouts, stderr : Stderrs,
     exists : BOOLEAN]

\* SkillRunner._extract_note_path: the path of the first match, or None.
extract_note_path(stdout) ==
    IF stdout = "Saved to **Clippings/Title.md**" THEN "Clippings/Title.md" ELSE None

CatchesLaunchErrorMutant(e) == e = "TimeoutExpired"
\* lines 86 and 94: the exceptions of subprocess.run that run_skill catches.
CatchesLaunchError(e) == e \in {"TimeoutExpired", "FileNotFoundError"}

\* SkillResult(success=False, note_path=None, error=...), returned.
SkillFailure(error) ==
    [raised |-> None, success |-> FALSE, note_path |-> None, error |-> error]

\* run_skill(entry) when the command behaves as x: the SkillResult it returns,
\* or the exception that leaves it.
run_skill_command(entry, x) ==
    LET error_output == IF x.stderr # "" THEN x.stderr ELSE x.stdout
        note_path == extract_note_path(x.stdout)
    IN  CASE x.launch # "exited" /\ ~CatchesLaunchError(x.launch) ->
                [raised |-> x.launch, success |-> FALSE, note_path |-> None, error |-> None]
          [] x.launch = "TimeoutExpired" /\ CatchesLaunchError(x.launch) ->
                SkillFailure("Skill timed out after 300 seconds")
          [] x.launch = "FileNotFoundError" /\ CatchesLaunchError(x.launch) ->
                SkillFailure("Claude CLI not found. Ensure 'claude' is in PATH.")
          [] x.launch = "exited" /\ x.returncode # 0 ->
                SkillFailure("Skill exited with code " \o ToString(x.returncode)
                                \o ": " \o error_output)
          [] x.launch = "exited" /\ x.returncode = 0 /\ note_path = None ->
                SkillFailure("Skill completed but no note path found in output")
          [] x.launch = "exited" /\ x.returncode = 0 /\ note_path # None /\ ~x.exists ->
                SkillFailure("Skill reported creating note but file not found: " \o note_path)
          [] OTHER ->
                [raised |-> None, success |-> TRUE, note_path |-> note_path, error |-> None]

\* No call of run_skill has been made.
NoSkillCall ==
    [entry |-> [guid |-> None, content |-> ""],
     execution |-> [launch |-> None, returncode |-> NoInt, stdout |-> "", stderr |-> "",
                    exists |-> FALSE],
     result |-> [raised |-> None, success |-> FALSE, note_path |-> None, error |-> None]]

vars == <<lockVars, storeVars, runVars>>

(***************************************************************************)
(* run_pipeline (pipeline.py 91-110) and _run_pipeline_inner (113-289).    *)
(***************************************************************************)
Limits == {NoInt, 1}
\* What the external processor does with an entry: it produces the note, it
\* fails in a way worth retrying, it fails for good (access denied); or the
\* call of run_skill itself raises.
ProcessorOutcomes == {"success", "transient", "permanent"}
SkillOutcomes == ProcessorOutcomes \cup {"exception"}

\* The error text of each outcome.
ErrorMessage(o) ==
    CASE o = "transient" -> "Skill timed out"
      [] o = "permanent" -> "Skill exited with code 1: access denied"
      [] o = "exception" -> "KeyError: category"
      [] OTHER -> None

\* SkillRunner.run_skill: the SkillResult built from the processor's outcome;
\* every failing path returns success=False, note_path=None and an error text.
run_skill(entry, o) ==
    [success |-> o = "success",
     note_path |-> IF o = "success" THEN entry.guid ELSE None,
     error |-> ErrorMessage(o)]

\* No run_skill invocation is in progress.
NoCall == [guid |-> None, by |-> None, at |-> NoInt, processed |-> FALSE, next_retry_at |-> NoInt]

\* hist with a phase added (consecutive items are recorded once).
Phase(h, p) == IF Len(h) > 0 /\ h[Len(h)] = p THEN h ELSE Append(h, p)

FreshRun(dry_run, limit, force) ==
    [dry_run |-> dry_run, limit |-> limit, force |-> force,
     lock |-> FALSE, run_id |-> NoInt,
     new_entries |-> << >>, retry_entries |-> << >>, all_entries |-> << >>,
     idx |-> 0, signal |-> None, result |-> PipelineResult,
     missing_skills |-> FALSE, last_run |-> NoInt, notifications |-> 0,
     batches |-> << >>, batch_idx |-> 0]

\* lines 94-95: `if not dry_run` decides whether the run takes the lock.
AcquiresLockMutant(dry_run) == TRUE
AcquiresLock(dry_run) == ~dry_run

\* A process starts run_pipeline(db, dry_run, limit, force).  Lines 94-96:
\* a dry run skips the lock, any other run creates its PipelineLock.
Launch(r, dry_run, limit, force) ==
    /\ pc[r] \in {"idle", "done"}
    /\ run' = [run EXCEPT ![r] = [FreshRun(dry_run, limit, force) EXCEPT !.lock = AcquiresLock(dry_run)]]
    /\ pc' = [pc EXCEPT ![r] = IF AcquiresLock(dry_run) THEN "acquire" ELSE "inner"]
    /\ hist' = [hist EXCEPT ![r] = IF AcquiresLock(dry_run) THEN <<"acquire">> ELSE << >>]
    /\ outcome' = [outcome EXCEPT ![r] = "none"]
    /\ wrote' = [wrote EXCEPT ![r] = {}]
    \* the previous process of this slot has exited: its descriptors are closed
    /\ fd' = [fd EXCEPT ![r] = None]
    /\ flockHeld' = flockHeld \ {r}
    /\ lockErr' = [lockErr EXCEPT ![r] = NoError]
    /\ UNCHANGED <<lockFile, lpos, storeVars, lastCall, skillCall>>

\* The same, counted.
Start(r, dry_run, limit, force) ==
    /\ invocations' = invocations + 1
    /\ Launch(r, dry_run, limit, force)

\* run_pipeline is started, at most MaxInvocations times in all.
Begin(r, dry_run, limit, force) ==
    /\ invocations < MaxInvocations
    /\ Start(r, dry_run, limit, force)

\* lines 99/104: lock.acquire(), the system calls before the pid is written.
RunAcquireStep(r) ==
    /\ pc[r] = "acquire"
    /\ (AcqOpen(r) \/ AcqFlock(r) \/ AcqFtruncate(r))
    /\ UNCHANGED <<storeVars, runVars>>

\* lock.acquire() returns: the try block of line 106 is entered.
RunAcquired(r) ==
    /\ pc[r] = "acquire"
    /\ AcqPwrite(r)
    /\ pc' = [pc EXCEPT ![r] = "inner"]
    /\ UNCHANGED <<storeVars, run, outcome, hist, wrote, lastCall, skillCall, invocations>>

CatchesLockErrorMutant(r) == TRUE
\* Whether a PipelineLockError of acquire() is caught (lines 97-102).
CatchesLockError(r) == run[r].force

LockAfterOverrideMutant(r) == run[r].lock
\* line 102, `lock = None`: after the override the run has no lock object.
LockAfterOverride(r) == FALSE

\* lock.acquire() raises PipelineLockError: with force it is logged and
\* lock = None (lines 100-102), without force it leaves run_pipeline (line 104).
RunLockDenied(r) ==
    /\ pc[r] = "acquire"
    /\ AcqRaise(r)
    /\ IF CatchesLockError(r)
         THEN /\ run' = [run EXCEPT ![r].lock = LockAfterOverride(r)]
              /\ pc' = [pc EXCEPT ![r] = "inner"]
              /\ hist' = [hist EXCEPT ![r] = Phase(@, "force_override")]
              /\ UNCHANGED outcome
         ELSE /\ pc' = [pc EXCEPT ![r] = "done"]
              /\ outcome' = [outcome EXCEPT ![r] = "PipelineLockError"]
              /\ UNCHANGED <<run, hist>>
    /\ UNCHANGED <<storeVars, wrote, lastCall, skillCall, invocations>>

\* What lines 115-123 find: the configuration cannot be loaded (SkillRunner()
\* raises), a skill directory is missing, or everything is in place.
Environments == {"unconfigured", "missing_skill", "ok"}

AbortsOnMissingMutant(missing_skills) == FALSE
\* lines 120-123, `if missing_skills:`: the run returns PipelineResult() at once.
AbortsOnMissing(missing_skills) == missing_skills

\* lines 115-130: construct the collaborators, validate the skills, look at
\* the last successful run (read only).
Validate(r, env) ==
    /\ pc[r] = "inner"
    /\ LET missing_skills == env = "missing_skill" IN
       CASE env = "unconfigured" ->
              /\ outcome' = [outcome EXCEPT ![r] = "raised"]
              /\ pc' = [pc EXCEPT ![r] = "finally"]
              /\ UNCHANGED <<hist, run>>
         [] env # "unconfigured" /\ AbortsOnMissing(missing_skills) ->
              /\ outcome' = [outcome EXCEPT ![r] = "returned"]
              /\ pc' = [pc EXCEPT ![r] = "finally"]
              /\ hist' = [hist EXCEPT ![r] = Phase(@, "validate")]
              /\ run' = [run EXCEPT ![r].missing_skills = missing_skills]
         [] OTHER ->
              /\ pc' = [pc EXCEPT ![r] = "start"]
              /\ hist' = [hist EXCEPT ![r] = Phase(@, "validate")]
              /\ run' = [run EXCEPT ![r].missing_skills = missing_skills,
                                    ![r].last_run = get_last_successful_run(pipeline_runs)]
              /\ UNCHANGED outcome
    /\ UNCHANGED <<lockVars, storeVars, wrote, lastCall, skillCall, invocations>>

\* line 133: run_id = db.record_run_start(), on the table runs.
RunStartOn(r, runs) ==
    /\ pc[r] = "start"
    /\ pipeline_runs' = record_run_start(runs)
    /\ run' = [run EXCEPT ![r].run_id = Len(runs) + 1]
    /\ wrote' = [wrote EXCEPT ![r] = @ \cup {"pipeline_runs"}]
    /\ hist' = [hist EXCEPT ![r] = Phase(@, "run_start")]
    /\ pc' = [pc EXCEPT ![r] = "fetch"]
    /\ UNCHANGED <<lockVars, now, processed_entries, retry_queue, streak, abandoned,
                   outcome, lastCall, skillCall, invocations>>

RecordRunStart(r) == RunStartOn(r, pipeline_runs)

ReturnsPreviewMutant(dry_run) == FALSE
\* line 165, `if dry_run:`: the run returns PipelineResult(skipped=...) here.
ReturnsPreview(dry_run) == dry_run

\* lines 136-168: fetch the new entries and the due retries, concatenate,
\* apply the limit; a dry run returns PipelineResult(skipped=len(all_entries)).
Fetch(r, listing) ==
    /\ pc[r] = "fetch"
    /\ LET new_entries == fetch_new_entries(processed_entries, listing)
           retry_rows == get_retry_candidates(retry_queue, now)
           retry_entries == [i \in 1..Len(retry_rows) |-> RetryEntry(retry_rows[i])]
           all_entries == ApplyLimit(new_entries \o retry_entries, run[r].limit)
       IN  /\ run' = [run EXCEPT ![r].new_entries = new_entries,
                                 ![r].retry_entries = retry_entries,
                                 ![r].all_entries = all_entries,
                                 ![r].idx = IF ReturnsPreview(run[r].dry_run) THEN 0 ELSE 1,
                                 ![r].result.skipped =
                                     IF ReturnsPreview(run[r].dry_run)
                                       THEN Len(all_entries) ELSE 0]
    /\ wrote' = [wrote EXCEPT ![r] = @ \cup {"feeds"}]
    /\ hist' = [hist EXCEPT ![r] = Phase(@, "fetch")]
    /\ IF ReturnsPreview(run[r].dry_run)
         THEN /\ outcome' = [outcome EXCEPT ![r] = "returned"]
              /\ pc' = [pc EXCEPT ![r] = "finally"]
         ELSE /\ pc' = [pc EXCEPT ![r] = "loop"]
              /\ UNCHANGED outcome
    /\ UNCHANGED <<lockVars, storeVars, lastCall, skillCall, invocations>>

\* The entry the loop of line 174 is at.
CurrentEntry(r) == run[r].all_entries[run[r].idx]

\* lines 174-190: take the next entry; skip it when it is processed already
\* (removing it from the retry queue if it is a retry), else call run_skill.
ItemCheck(r) ==
    /\ pc[r] = "loop"
    /\ run[r].idx <= Len(run[r].all_entries)
    /\ LET entry == CurrentEntry(r)
           is_retry == EntryIn(entry, run[r].retry_entries)
           k == RetryIndex(retry_queue, entry.guid)
       IN  IF is_processed(processed_entries, entry.guid)
             THEN /\ IF is_retry
                       THEN /\ retry_queue' = remove_from_retry_queue(retry_queue, entry.guid)
                            /\ wrote' = [wrote EXCEPT ![r] = @ \cup {"retry_queue"}]
                       ELSE UNCHANGED <<retry_queue, wrote>>
                  /\ run' = [run EXCEPT ![r].idx = @ + 1, ![r].signal = None]
                  /\ UNCHANGED <<pc, lastCall>>
             ELSE /\ pc' = [pc EXCEPT ![r] = "skill"]
                  /\ lastCall' = [guid |-> entry.guid, by |-> r, at |-> now,
                                  processed |-> \E i \in 1..Len(processed_entries) :
                                                    processed_entries[i].entry_guid = entry.guid,
                                  next_retry_at |-> IF k = 0 THEN NoInt
                                                    ELSE retry_queue[k].next_retry_at]
                  /\ run' = [run EXCEPT ![r].signal = None]
                  /\ UNCHANGED <<retry_queue, wrote>>
    /\ hist' = [hist EXCEPT ![r] = Phase(@, "item")]
    /\ UNCHANGED <<lockVars, now, processed_entries, pipeline_runs, streak, abandoned,
                   outcome, invocations, skillCall>>

RecordedFailuresMutant(failures, entry, msg) == failures
\* lines 228 and 242: result.failures.append((entry, error_msg))
RecordedFailures(failures, entry, msg) == Append(failures, <<entry, msg>>)

HandlerCatchesMutant(o) == o # "exception"
\* line 232, `except Exception`: what is raised inside the try block of an
\* item is caught there.
HandlerCatches(o) == TRUE

\* lines 190-244: run_skill has come back, or has raised (o); record the outcome.
ItemOutcome(r, o) ==
    /\ pc[r] = "skill"
    /\ LET entry == CurrentEntry(r)
           is_retry == EntryIn(entry, run[r].retry_entries)
           skill_result == run_skill(entry, o)
           error_msg == IF skill_result.error # None THEN skill_result.error ELSE "Unknown error"
           \* the item is over, the loop goes on
           Continue == /\ pc' = [pc EXCEPT ![r] = "loop"]
                       /\ UNCHANGED outcome
           \* lines 219-228 and 233-242: add_to_retry_queue, failed, failures
           Retry(msg) ==
               /\ RecordFailure(entry.guid, msg)
               /\ run' = [run EXCEPT ![r].result.failed = @ + 1,
                                     ![r].result.failures = RecordedFailures(@, entry, msg),
                                     ![r].idx = @ + 1,
                                     ![r].signal = o]
               /\ wrote' = [wrote EXCEPT ![r] = @ \cup {"retry_queue"}]
               /\ UNCHANGED processed_entries
               /\ Continue
           \* an exception raised inside the try block: lines 232-244, str(e)
           Raised(msg) ==
               IF HandlerCatches(o)
                 THEN Retry(msg)
                 ELSE /\ outcome' = [outcome EXCEPT ![r] = "raised"]
                      /\ pc' = [pc EXCEPT ![r] = "finally"]
                      /\ run' = [run EXCEPT ![r].signal = o]
                      /\ UNCHANGED <<processed_entries, retry_queue, streak, abandoned, wrote>>
       IN  CASE o = "exception" ->
                  Raised(ErrorMessage(o))
            [] o # "exception" /\ skill_result.success
                 /\ ~mark_processed_raises(processed_entries, entry.guid) ->
                  \* lines 192-210
                  /\ processed_entries' = mark_processed(processed_entries, entry.guid,
                                                         skill_result.note_path)
                  /\ retry_queue' = IF is_retry
                                      THEN remove_from_retry_queue(retry_queue, entry.guid)
                                      ELSE retry_queue
                  /\ streak' = [streak EXCEPT ![entry.guid] = 0]
                  /\ run' = [run EXCEPT ![r].result.retried = IF is_retry THEN @ + 1 ELSE @,
                                        ![r].result.created_notes = Append(@, skill_result.note_path),
                                        ![r].result.processed = @ + 1,
                                        ![r].idx = @ + 1,
                                        ![r].signal = o]
                  /\ wrote' = [wrote EXCEPT ![r] = @ \cup {"processed_entries"}
                                     \cup (IF is_retry THEN {"retry_queue"} ELSE {})]
                  /\ UNCHANGED abandoned
                  /\ Continue
            [] o # "exception" /\ skill_result.success
                 /\ mark_processed_raises(processed_entries, entry.guid) ->
                  Raised("IntegrityError: UNIQUE constraint failed")
            [] o # "exception" /\ ~skill_result.success
                 /\ "permanent" \notin SkillResultFields ->
                  \* line 213 reads skill_result.permanent, which SkillResult lacks
                  Raised("AttributeError: 'SkillResult' object has no attribute 'permanent'")
            [] o = "permanent" /\ "permanent" \in SkillResultFields ->
                  \* lines 213-216
                  /\ run' = [run EXCEPT ![r].result.permanent_failures = @ + 1,
                                        ![r].idx = @ + 1,
                                        ![r].signal = o]
                  /\ UNCHANGED <<processed_entries, retry_queue, streak, abandoned, wrote>>
                  /\ Continue
            [] OTHER ->
                  \* lines 217-230
                  Retry(error_msg)
    /\ lastCall' = NoCall
    /\ UNCHANGED <<lockVars, now, pipeline_runs, hist, invocations, skillCall>>

\* line 257
batch_size == 6

BatchesMutant(paths) ==
    [k \in 1..(Len(paths) \div batch_size) |->
        SubSeq(paths, (k - 1) * batch_size + 1, k * batch_size)]
\* line 258: [relative_paths[i : i + batch_size] for i in range(0, len(relative_paths), batch_size)]
Batches(paths) ==
    [k \in 1..((Len(paths) + batch_size - 1) \div batch_size) |->
        SubSeq(paths, (k - 1) * batch_size + 1,
               IF k * batch_size < Len(paths) THEN k * batch_size ELSE Len(paths))]

\* lines 246-262: the loop is over; when notes were created they are cut
\* into batches (the note paths are held relative to the vault).
PostProcess(r) ==
    /\ pc[r] = "loop"
    /\ run[r].idx > Len(run[r].all_entries)
    /\ IF run[r].result.created_notes # << >>
         THEN /\ pc' = [pc EXCEPT ![r] = "post"]
              /\ hist' = [hist EXCEPT ![r] = Phase(@, "post")]
              /\ run' = [run EXCEPT ![r].signal = None,
                                    ![r].batches = Batches(run[r].result.created_notes),
                                    ![r].batch_idx = 1]
         ELSE /\ pc' = [pc EXCEPT ![r] = "complete"]
              /\ run' = [run EXCEPT ![r].signal = None]
              /\ UNCHANGED hist
    /\ UNCHANGED <<lockVars, storeVars, outcome, wrote, lastCall, skillCall, invocations>>

\* How the evaluation of one batch ends: subprocess.run returns (whatever the
\* exit code), raises TimeoutExpired, or raises something else.
BatchOutcomes == {"done", "TimeoutExpired", "Exception"}

ContinuesAfterBatchMutant(b) == b = "done"
\* lines 278-281: both except clauses log a warning and the loop goes on.
ContinuesAfterBatch(b) == TRUE

\* lines 264-281: one batch is handed to /evaluate-knowledge.
PostBatch(r, b) ==
    /\ pc[r] = "post"
    /\ run[r].batch_idx <= Len(run[r].batches)
    /\ IF ContinuesAfterBatch(b)
         THEN /\ run' = [run EXCEPT ![r].batch_idx = @ + 1, ![r].signal = b]
              /\ pc' = [pc EXCEPT ![r] = IF run[r].batch_idx = Len(run[r].batches)
                                            THEN "complete" ELSE "post"]
              /\ UNCHANGED outcome
         ELSE /\ run' = [run EXCEPT ![r].signal = b]
              /\ outcome' = [outcome EXCEPT ![r] = "raised"]
              /\ pc' = [pc EXCEPT ![r] = "finally"]
    /\ UNCHANGED <<lockVars, storeVars, hist, wrote, lastCall, skillCall, invocations>>

\* line 284: db.record_run_complete(run_id, result.processed, result.failed)
Complete(r) ==
    /\ pc[r] = "complete"
    /\ pipeline_runs' = record_run_complete(pipeline_runs, run[r].run_id,
                            run[r].result.processed, run[r].result.failed, now)
    /\ wrote' = [wrote EXCEPT ![r] = @ \cup {"pipeline_runs"}]
    /\ hist' = [hist EXCEPT ![r] = Phase(@, "complete")]
    /\ pc' = [pc EXCEPT ![r] = "notify"]
    /\ run' = [run EXCEPT ![r].signal = None]
    /\ UNCHANGED <<lockVars, now, processed_entries, retry_queue, streak, abandoned,
                   outcome, lastCall, skillCall, invocations>>

\* send_notification lines 296-305: the branch that reads result.failures[0].
ReadsFirstFailure(result) ==
    /\ ~(result.skipped > 0)
    /\ ~(result.processed = 0 /\ result.failed = 0 /\ result.permanent_failures = 0)
    /\ result.failed > 0

\* lines 287-289: send_notification(result), return result.  result.failures[0]
\* on an empty list raises IndexError, outside the try of lines 313-323.
Notify(r) ==
    /\ pc[r] = "notify"
    /\ IF ReadsFirstFailure(run[r].result) /\ run[r].result.failures = << >>
         THEN /\ outcome' = [outcome EXCEPT ![r] = "raised"]
              /\ UNCHANGED run
         ELSE /\ outcome' = [outcome EXCEPT ![r] = "returned"]
              /\ run' = [run EXCEPT ![r].notifications = @ + 1]
    /\ hist' = [hist EXCEPT ![r] = Phase(@, "notify")]
    /\ pc' = [pc EXCEPT ![r] = "finally"]
    /\ UNCHANGED <<lockVars, storeVars, wrote, lastCall, skillCall, invocations>>

RunsFinallyMutant(r) == outcome[r] = "returned" /\ run[r].run_id # NoInt
\* Whether the finally clause of lines 108-110 runs for this way out.
RunsFinally(r) == TRUE

\* lines 108-110: finally: if lock is not None: lock.release()
Finally(r) ==
    /\ pc[r] = "finally"
    /\ IF RunsFinally(r) /\ run[r].lock
         THEN release(r)
         ELSE UNCHANGED lockVars
    /\ pc' = [pc EXCEPT ![r] = "done"]
    \* the locals of _run_pipeline_inner are gone, the result is with the caller
    /\ run' = [run EXCEPT ![r].new_entries = << >>, ![r].retry_entries = << >>,
                          ![r].all_entries = << >>, ![r].idx = 0, ![r].run_id = NoInt,
                          ![r].signal = None, ![r].last_run = NoInt,
                          ![r].batches = << >>, ![r].batch_idx = 0]
    /\ UNCHANGED <<storeVars, outcome, hist, wrote, lastCall, skillCall, invocations>>

\* Time passes.
Tick ==
    /\ now < MaxTime
    /\ now' = now + 1
    /\ UNCHANGED <<lockVars, processed_entries, retry_queue, pipeline_runs, streak, abandoned,
                   runVars>>

LockInit ==
    /\ lockFile = << >>
    /\ flockHeld = {}
    /\ fd = [h \in Handles |-> None]
    /\ lpos = [h \in Handles |-> "out"]
    /\ lockErr = [h \in Handles |-> NoError]

Init ==
    /\ LockInit
    /\ now = 0
    /\ processed_entries = << >>
    /\ retry_queue = << >>
    /\ pipeline_runs = << >>
    /\ streak = [g \in Guids |-> 0]
    /\ abandoned = [g \in Guids |-> NoInt]
    /\ pc = [r \in Runs |-> "idle"]
    /\ run = [r \in Runs |-> FreshRun(FALSE, NoInt, FALSE)]
    /\ outcome = [r \in Runs |-> "none"]
    /\ hist = [r \in Runs |-> << >>]
    /\ wrote = [r \in Runs |-> {}]
    /\ lastCall = NoCall
    /\ invocations = 0
    /\ skillCall = NoSkillCall

\* Another process (a stuck earlier run, an operator's tool) takes the lock
\* with a complete acquire() ...
ExternalAcquire(h) ==
    /\ fd[h] = None /\ lpos[h] = "out"
    /\ ~FlockFails(h)
    /\ fd' = [fd EXCEPT ![h] = "open"]
    /\ flockHeld' = flockHeld \cup {h}
    /\ lockFile' = pwrite(ftruncate(lockFile), str(getpid[h]))
    /\ UNCHANGED <<lpos, lockErr, storeVars, runVars>>

\* ... and gives it back with release().
ExternalRelease(h) ==
    /\ fd[h] # None
    /\ release(h)
    /\ UNCHANGED <<storeVars, runVars>>

\* The steps of one run_pipeline process, its inputs drawn from the given
\* sets, up to the refusal of the lock.
RunNext(r, forces, limits, listings, results) ==
    \/ \E dry_run \in BOOLEAN, limit \in limits, force \in forces :
          Begin(r, dry_run, limit, force)
    \/ RunAcquireStep(r)
    \/ RunAcquired(r)
    \/ \E env \in Environments : Validate(r, env)
    \/ RecordRunStart(r)
    \/ \E listing \in listings : Fetch(r, listing)
    \/ ItemCheck(r)
    \/ \E res \in results : ItemOutcome(r, res)
    \/ PostProcess(r)
    \/ \E b \in BatchOutcomes : PostBatch(r, b)
    \/ Complete(r)
    \/ Notify(r)
    \/ Finally(r)

\* Runs of one process after another, never overlapping, the lock always free.
Next ==
    \/ Tick
    \/ RunNext("p1", {FALSE}, Limits, FeedListings, ProcessorOutcomes)

Spec == Init /\ [][Next]_vars

\* The feed of the runs that compete for the lock: one entry or none.
SmallListings == {<< >>, <<[guid |-> "g1", content |-> "text"]>>}

\* Runs of one process after another, next to a foreign process that takes
\* and releases the lock.
NextContend ==
    \/ Tick
    \/ RunNext("p1", BOOLEAN, {NoInt}, SmallListings, SkillOutcomes)
    \/ RunLockDenied("p1")
    \/ ExternalAcquire("p3")
    \/ ExternalRelease("p3")

SpecContend == Init /\ [][NextContend]_vars

\* Runs started by independent processes within the same hour, overlapping
\* freely.
NextOverlap ==
    \E r \in Runs :
        \/ RunNext(r, BOOLEAN, {NoInt}, SmallListings, ProcessorOutcomes)
        \/ RunLockDenied(r)

SpecOverlap == Init /\ [][NextOverlap]_vars

\* What two feeds that carry the same article list at one fetch: the entry
\* twice (fetch_new_entries appends feed after feed, lines 75-81).
TwinListings == {<< >>, <<[guid |-> "g1", content |-> "text"], [guid |-> "g1", content |-> "text"]>>}

\* Runs of one process after another, within the hour, over such feeds.
NextTwin == RunNext("p1", {FALSE}, {NoInt}, TwinListings, {"success", "transient"})

SpecTwin == Init /\ [][NextTwin]_vars

\* The scheduled run, started again and again (at most MaxRetryRuns times)
\* while the feed keeps listing the same entry.
BeginRetryRun(r) ==
    /\ invocations < MaxRetryRuns
    /\ Start(r, FALSE, NoInt, FALSE)

NextRetry ==
    \/ Tick
    \/ BeginRetryRun("p1")
    \/ RunAcquireStep("p1")
    \/ RunAcquired("p1")
    \/ Validate("p1", "ok")
    \/ RecordRunStart("p1")
    \/ \E listing \in SmallListings : Fetch("p1", listing)
    \/ ItemCheck("p1")
    \/ \E o \in {"success", "transient"} : ItemOutcome("p1", o)
    \/ PostProcess("p1")
    \/ \E b \in BatchOutcomes : PostBatch("p1", b)
    \/ Complete("p1")
    \/ Notify("p1")
    \/ Finally("p1")

SpecRetry == Init /\ [][NextRetry]_vars

\* Stand-alone use of PipelineLock by independent processes: acquire() and
\* release() (or `with PipelineLock(path):`) on each handle, one system call
\* at a time.
LockOpen(h) == AcqOpen(h) /\ UNCHANGED <<storeVars, runVars>>
LockFlock(h) == AcqFlock(h) /\ UNCHANGED <<storeVars, runVars>>
LockRaise(h) == AcqRaise(h) /\ UNCHANGED <<storeVars, runVars>>
LockFtruncate(h) == AcqFtruncate(h) /\ UNCHANGED <<storeVars, runVars>>
LockPwrite(h) == AcqPwrite(h) /\ UNCHANGED <<storeVars, runVars>>
LockRelease(h) == fd[h] # None /\ release(h) /\ UNCHANGED <<storeVars, runVars>>

LockNext ==
    \E h \in Handles :
        \/ LockOpen(h)
        \/ LockFlock(h)
        \/ LockRaise(h)
        \/ LockFtruncate(h)
        \/ LockPwrite(h)
        \/ LockRelease(h)

SpecLock == Init /\ [][LockNext]_vars

HeldAfterExitMutant(held, h) == held
\* The lock of flock() belongs to the open file description that os.open made
\* (line 41); it goes when the last descriptor for it is closed, which the
\* kernel does for a process that terminates.
HeldAfterExit(held, h) == held \ {h}

\* Where a terminated process is: it died holding the lock, or without it.
Dead == {"dead_holding", "dead"}

\* The process of handle h terminates (killed, crashed) while it has the lock
\* file open, without calling release(); it takes no further step.
LockExit(h) ==
    /\ fd[h] # None
    /\ fd' = [fd EXCEPT ![h] = None]
    /\ flockHeld' = HeldAfterExit(flockHeld, h)
    /\ lpos' = [lpos EXCEPT ![h] = IF h \in flockHeld THEN "dead_holding" ELSE "dead"]
    /\ UNCHANGED <<lockFile, lockErr, storeVars, runVars>>

\* The same processes, any of which may terminate at any point.
CrashNext ==
    \/ LockNext
    \/ \E h \in Handles : LockExit(h)

SpecCrash == Init /\ [][CrashNext]_vars

(***************************************************************************)
(* The store taken alone: the calls the item loop makes on the database,   *)
(* for any entry at any hour.                                              *)
(***************************************************************************)
\* The guid's row of retry_queue is due now.
DueRow(guid) ==
    LET k == RetryIndex(retry_queue, guid)
    IN  k # 0 /\ IsDue(retry_queue[k], now)

\* lines 183-190 and 211-244: an unprocessed entry fails, add_to_retry_queue.
StoreFail(guid) ==
    /\ ~is_processed(processed_entries, guid)
    /\ streak[guid] < MaxStreak
    /\ RecordFailure(guid, "error")
    /\ UNCHANGED <<lockVars, runVars, now, processed_entries, pipeline_runs>>

\* lines 183-210: an unprocessed entry succeeds; its row goes when the entry
\* was taken from the due retries.
StoreSucceed(guid, is_retry) ==
    /\ ~is_processed(processed_entries, guid)
    /\ is_retry => DueRow(guid)
    /\ processed_entries' = mark_processed(processed_entries, guid, guid)
    /\ retry_queue' = IF is_retry THEN remove_from_retry_queue(retry_queue, guid)
                                  ELSE retry_queue
    /\ streak' = [streak EXCEPT ![guid] = 0]
    /\ UNCHANGED <<lockVars, runVars, now, pipeline_runs, abandoned>>

\* lines 183-188: a due retry of a processed entry is dropped from the queue.
StoreSkip(guid) ==
    /\ is_processed(processed_entries, guid)
    /\ DueRow(guid)
    /\ retry_queue' = remove_from_retry_queue(retry_queue, guid)
    /\ UNCHANGED <<lockVars, runVars, now, processed_entries, pipeline_runs, streak, abandoned>>

\* An hour passes.
StoreTick ==
    /\ now < MaxClock
    /\ now' = now + 1
    /\ UNCHANGED <<lockVars, runVars, processed_entries, retry_queue, pipeline_runs,
                   streak, abandoned>>

StoreNext ==
    \/ StoreTick
    \/ \E guid \in Guids :
          \/ StoreFail(guid)
          \/ \E is_retry \in BOOLEAN : StoreSucceed(guid, is_retry)
          \/ StoreSkip(guid)

SpecStore == Init /\ [][StoreNext]_vars

(***************************************************************************)
(* The scheduled run recurring for ever: non-dry runs of one process, one  *)
(* after another, with or without a limit, while the feed lists one of the *)
(* entries or none.  Runs are not counted and pipeline_runs keeps only the *)
(* row of the current run (the run reads the others for the catch-up       *)
(* warning only); the clock stops at MaxTime.                              *)
(***************************************************************************)
LiveListings == {<< >>} \cup {<<[guid |-> g, content |-> "text"]>> : g \in Guids}

LiveBegin(r) ==
    /\ \E limit \in Limits : Launch(r, FALSE, limit, FALSE)
    /\ UNCHANGED invocations

LiveRunStart(r) == RunStartOn(r, << >>)

NextLive ==
    \/ Tick
    \/ LiveBegin("p1")
    \/ RunAcquireStep("p1")
    \/ RunAcquired("p1")
    \/ Validate("p1", "ok")
    \/ LiveRunStart("p1")
    \/ \E listing \in LiveListings : Fetch("p1", listing)
    \/ ItemCheck("p1")
    \/ \E o \in {"success", "transient"} : ItemOutcome("p1", o)
    \/ PostProcess("p1")
    \/ PostBatch("p1", "done")
    \/ Complete("p1")
    \/ Notify("p1")
    \/ Finally("p1")

\* The runs keep recurring: some step of the process is always taken.
SpecLive == Init /\ [][NextLive]_vars /\ WF_vars(NextLive)

(***************************************************************************)
(* The post-processing and the end of a run whose loop created n notes,    *)
(* for every n up to MaxNotes.                                             *)
(***************************************************************************)
\* The i-th entry of that run's feed and the note made from it.
NoteGuid(i) == "n" \o ToString(i)
NoteEntry(i) == [guid |-> NoteGuid(i), content |-> "text"]

\* run_pipeline(db) of process p1 at the end of its loop (line 245): it took
\* the lock, found n new entries and processed each of them successfully.
LoopOver(n) ==
    /\ lockFile = str(getpid["p1"])
    /\ flockHeld = {"p1"}
    /\ fd = [h \in Handles |-> IF h = "p1" THEN "open" ELSE None]
    /\ lpos = [h \in Handles |-> "out"]
    /\ lockErr = [h \in Handles |-> NoError]
    /\ now = 0
    /\ processed_entries = [i \in 1..n |-> [entry_guid |-> NoteGuid(i), note_path |-> NoteGuid(i)]]
    /\ retry_queue = << >>
    /\ pipeline_runs = record_run_start(<< >>)
    /\ streak = [g \in Guids |-> 0]
    /\ abandoned = [g \in Guids |-> NoInt]
    /\ pc = [r \in Runs |-> IF r = "p1" THEN "loop" ELSE "idle"]
    /\ run = [r \in Runs |->
                IF r = "p1"
                  THEN [FreshRun(FALSE, NoInt, FALSE) EXCEPT
                            !.lock = TRUE, !.run_id = 1,
                            !.new_entries = [i \in 1..n |-> NoteEntry(i)],
                            !.all_entries = [i \in 1..n |-> NoteEntry(i)],
                            !.idx = n + 1,
                            !.result.processed = n,
                            !.result.created_notes = [i \in 1..n |-> NoteGuid(i)]]
                  ELSE FreshRun(FALSE, NoInt, FALSE)]
    /\ outcome = [r \in Runs |-> "none"]
    /\ hist = [r \in Runs |->
                 IF r # "p1" THEN << >>
                 ELSE IF n = 0 THEN <<"acquire", "validate", "run_start", "fetch">>
                 ELSE <<"acquire", "validate", "run_start", "fetch", "item">>]
    /\ wrote = [r \in Runs |->
                  IF r # "p1" THEN {}
                  ELSE IF n = 0 THEN {"pipeline_runs", "feeds"}
                  ELSE {"pipeline_runs", "feeds", "processed_entries"}]
    /\ lastCall = NoCall
    /\ invocations = 1
    /\ skillCall = NoSkillCall

InitPost == \E n \in 0..MaxNotes : LoopOver(n)

NextPost ==
    \/ PostProcess("p1")
    \/ \E b \in BatchOutcomes : PostBatch("p1", b)
    \/ Complete("p1")
    \/ Notify("p1")
    \/ Finally("p1")

SpecPost == InitPost /\ [][NextPost]_vars

(***************************************************************************)
(* run_skill taken alone: called on any entry, the command behaving in any *)
(* of the ways of Executions.                                              *)
(***************************************************************************)
SkillCall(entry, x) ==
    /\ skillCall' = [entry |-> entry, execution |-> x,
                     result |-> run_skill_command(entry, x)]
    /\ UNCHANGED <<lockVars, storeVars, pc, run, outcome, hist, wrote, lastCall, invocations>>

NextSkill == \E entry \in Entries, x \in Executions : SkillCall(entry, x)

SpecSkill == Init /\ [][NextSkill]_vars

(***************************************************************************)
(* Properties.                                                             *)
(***************************************************************************)
\* The guid has a ProcessedRecord / how many it has.
HasRecord(guid) == \E i \in 1..Len(processed_entries) : processed_entries[i].entry_guid = guid
RecordCount(guid) == Cardinality({i \in 1..Len(processed_entries) : processed_entries[i].entry_guid = guid})
HasRetryEntry(guid) == \E i \in 1..Len(retry_queue) : retry_queue[i].entry_guid = guid

\* The invocation is between the start of validation and the end of finalization.
Active(r) == pc[r] \in {"inner", "start", "fetch", "loop", "skill", "post", "complete", "notify"}

\* The invocation went through the phase.
Passed(r, phase) == \E i \in 1..Len(hist[r]) : hist[r][i] = phase

\* C1: no guid has a ProcessedRecord and a RetryEntry at the same time, in
\* any state reachable by a sequence of pipeline runs.
C1_NoCoexistence ==
    \A g \in Guids : ~(HasRecord(g) /\ HasRetryEntry(g))

\* C2: an entry whose guid has a RetryEntry is handed to the external
\* processor only when that RetryEntry's next_retry_at <= now at the moment
\* of the invocation.
C2_OnlyDueRetriesProcessed ==
    (lastCall.guid # None /\ lastCall.next_retry_at # NoInt)
        => lastCall.next_retry_at <= lastCall.at

\* C3: in non-overlapping runs the external processor is never invoked on
\* an entry whose guid already has a ProcessedRecord, and no guid ever has
\* more than one ProcessedRecord.
C3_NeverReprocessed ==
    /\ \A r \in Runs : pc[r] = "skill" => ~HasRecord(CurrentEntry(r).guid)
    /\ lastCall.guid # None => ~lastCall.processed
    /\ \A g \in Guids : RecordCount(g) <= 1

\* C3 witness: a run processed a guid and then met the same guid again (its
\* due retry) and skipped it.
C3_Witness ==
    \E r \in Runs :
        /\ pc[r] = "loop" /\ run[r].idx = 3
        /\ run[r].all_entries[1].guid = run[r].all_entries[2].guid
        /\ run[r].result.processed = 1 /\ run[r].result.failed = 0
        /\ RecordCount(run[r].all_entries[1].guid) = 1

\* C4: while one holder has acquired and not released, every other acquire()
\* fails with PipelineLockError and leaves the holder's lock intact; once the
\* lock is free an acquire() succeeds; at no time do two handles hold the lock.
C4_LockExclusive ==
    /\ [](Cardinality(flockHeld) <= 1)
    /\ [][\A x \in Handles :
            /\ (lpos[x] = "opened" /\ lpos'[x] # "opened") =>
                  IF flockHeld # {}
                    THEN lpos'[x] = "denied" /\ flockHeld' = flockHeld
                    ELSE lpos'[x] = "locked" /\ flockHeld' = {x}
            /\ (lpos[x] = "denied" /\ lpos'[x] # "denied") =>
                  /\ lockErr'[x].raised /\ fd'[x] = None
                  /\ flockHeld' = flockHeld /\ x \notin flockHeld'
                  /\ \A h \in Handles \ {x} : fd'[h] = fd[h]]_vars

\* C4 witness: a handle was refused while another one holds the lock.
C4_Witness ==
    \E h, x \in Handles :
        h # x /\ Holds(h) /\ lockErr[x].raised /\ fd[x] = None /\ lpos[x] = "out"

\* C5 (as claimed): a PipelineLockError raised while the lock is held carries
\* the pid of the current holder, whatever the interleaving with the holder's
\* own acquire steps.
C5_ErrorCarriesHolderPid ==
    [][\A x \in Handles :
          (lpos[x] = "denied" /\ lpos'[x] = "out") =>
              \A h \in flockHeld : lockErr'[x].pid = getpid[h]]_vars

\* C5 (amended): the error carries the holder's pid when the holder has
\* completed acquire() (its pid is written) at the time the failing acquire
\* reads the lock file; otherwise it carries no pid or the pid a process
\* wrote earlier, never anything else.
C5_ErrorCarriesWrittenPid ==
    [][\A x \in Handles :
          (lpos[x] = "denied" /\ lpos'[x] = "out") =>
              /\ \A h \in flockHeld : Holds(h) => lockErr'[x].pid = getpid[h]
              /\ lockErr'[x].pid \in {NoInt} \cup {getpid[h] : h \in Handles}]_vars

\* C5 witness: a refused acquire reported the pid of the handle that holds
\* the lock now, after an earlier holder with a longer pid.
C5_Witness ==
    \E h, x \in Handles :
        /\ h # x /\ Holds(h) /\ lockErr[x].raised
        /\ lockErr[x].pid = getpid[h] /\ getpid[h] = 7
        /\ lockErr["p2"].raised /\ lockErr["p2"].pid = 305

\* C6 (as claimed): at most one pipeline execution that mutates the store is
\* between the start of validation and the end of finalization.
C6_OneActiveRun ==
    Cardinality({r \in Runs : Active(r) /\ ~run[r].dry_run}) <= 1

\* C6 (amended): at most one execution that holds the pipeline lock is
\* between validation and finalization, and such an execution does hold the
\* OS lock; runs that overlap it are forced runs that found the lock taken,
\* or dry runs.
C6_OneActiveLockHolder ==
    /\ Cardinality({r \in Runs : Active(r) /\ run[r].lock}) <= 1
    /\ \A r \in Runs : (Active(r) /\ run[r].lock) => flockHeld = {r}
    /\ \A r \in Runs :
          (Active(r) /\ ~run[r].lock) => (run[r].dry_run \/ Passed(r, "force_override"))

\* C6 witness: a forced run is inside the pipeline next to the lock holder.
C6_Witness ==
    \E r, q \in Runs :
        /\ r # q /\ Active(r) /\ run[r].lock /\ pc[r] = "skill"
        /\ Active(q) /\ Passed(q, "force_override")

\* C7: a dry run changes none of processed_entries, retry_queue and
\* pipeline_runs.
C7_DryRunPure ==
    [][\A r \in Runs :
          (run[r].dry_run /\ pc[r] \notin {"idle", "done"} /\ pc'[r] # pc[r]) =>
              UNCHANGED <<processed_entries, retry_queue, pipeline_runs>>]_vars

\* C8: a dry run never attempts to acquire the pipeline lock: it opens no
\* lock file descriptor, never holds or is refused the lock, and never ends
\* with PipelineLockError.
C8_DryRunSkipsLock ==
    \A r \in Runs :
        (run[r].dry_run /\ pc[r] # "idle") =>
            /\ pc[r] # "acquire" /\ ~Passed(r, "acquire") /\ ~run[r].lock
            /\ fd[r] = None /\ lpos[r] = "out" /\ r \notin flockHeld
            /\ ~lockErr[r].raised /\ outcome[r] # "PipelineLockError"

\* C8 witness: a dry run returned its preview while another process held
\* the lock throughout.
C8_Witness ==
    \E r \in Runs :
        /\ run[r].dry_run /\ pc[r] = "done" /\ outcome[r] = "returned"
        /\ Passed(r, "fetch") /\ Holds("p3") /\ invocations = 1

\* C9: after run_pipeline returns or raises, the lock it acquired is not
\* held any more, whatever the exit path.
C9_LockReleasedOnExit ==
    \A r \in Runs :
        pc[r] = "done" => (r \notin flockHeld /\ fd[r] = None)

\* C9 witness: a run that had acquired the lock ended by an exception
\* escaping the inner pipeline.
C9_Witness ==
    \E r \in Runs :
        /\ pc[r] = "done" /\ outcome[r] = "raised"
        /\ run[r].lock /\ ~lockErr[r].raised /\ lockFile = str(getpid[r])

\* C10: a non-dry run without force that finds the lock held fails with
\* PipelineLockError before validation, before a RunRecord is created and
\* before any entry is fetched or processed, and writes nothing to the store.
C10_LockHeldIsFatal ==
    \A r \in Runs :
        (~run[r].dry_run /\ ~run[r].force /\ lockErr[r].raised) =>
            /\ pc[r] = "done" /\ outcome[r] = "PipelineLockError"
            /\ hist[r] = <<"acquire">> /\ wrote[r] = {}
            /\ run[r].run_id = NoInt /\ run[r].all_entries = << >>
            /\ run[r].result = PipelineResult

\* C10 witness: a run was refused while the other process holds the lock.
C10_Witness ==
    \E r \in Runs :
        /\ outcome[r] = "PipelineLockError" /\ ~run[r].force
        /\ Holds("p3") /\ lockErr[r].pid = getpid["p3"]

\* C11: a non-dry run started with force while another process holds the
\* lock is not stopped by PipelineLockError, goes on without a lock of its
\* own (no lock object, no descriptor, no OS lock), and its finalization
\* leaves the lock, the lock file and every other descriptor as they were.
C11_ForceProceedsUnlocked ==
    /\ [](\A r \in Runs :
            Passed(r, "force_override") =>
                /\ run[r].force /\ ~run[r].dry_run /\ lockErr[r].raised
                /\ ~run[r].lock /\ fd[r] = None /\ r \notin flockHeld
                /\ outcome[r] # "PipelineLockError")
    /\ [][\A r \in Runs :
            (Passed(r, "force_override") /\ pc[r] = "finally" /\ pc'[r] = "done") =>
                UNCHANGED <<lockFile, flockHeld, fd>>]_vars

\* C11 witness: a forced run went through every phase, processed an entry
\* and returned, and the other process still holds the lock it held.
C11_Witness ==
    \E r \in Runs :
        /\ pc[r] = "done" /\ outcome[r] = "returned" /\ run[r].result.processed = 1
        /\ hist[r] = <<"acquire", "force_override", "validate", "run_start",
                       "fetch", "item", "post", "complete", "notify">>
        /\ Holds("p3") /\ lockFile = str(getpid["p3"]) /\ lockErr[r].pid = getpid["p3"]

\* The guid's row of the retry queue (when it has one).
RetryRow(rq, guid) == rq[RetryIndex(rq, guid)]

\* C12: when a guid fails for the K-th time in a row with no success in
\* between (K below the schedule length), the failure leaves a RetryEntry
\* whose attempt counter is K-1 (0 at the first failure, one more at each
\* later one) and whose next_retry_at is the time of the failure plus
\* schedule[attempt], strictly later than the one recorded before.
C12_BackoffMonotone ==
    [][\A g \in Guids :
          (streak'[g] = streak[g] + 1 /\ streak'[g] < Len(BACKOFF_HOURS)) =>
              /\ RetryIndex(retry_queue', g) # 0
              /\ RetryRow(retry_queue', g).retry_count = streak'[g] - 1
              /\ RetryRow(retry_queue', g).next_retry_at
                    = now + BACKOFF_HOURS[RetryRow(retry_queue', g).retry_count + 1]
              /\ RetryRow(retry_queue', g).last_attempt_at = now
              /\ IF streak[g] = 0
                    THEN RetryIndex(retry_queue, g) = 0
                    ELSE /\ RetryIndex(retry_queue, g) # 0
                         /\ RetryRow(retry_queue', g).retry_count
                               = RetryRow(retry_queue, g).retry_count + 1
                         /\ RetryRow(retry_queue', g).next_retry_at
                               > RetryRow(retry_queue, g).next_retry_at]_vars

\* C12 witness: a guid failed at hours 0, 1 and 2; its third failure left
\* attempt 2 and next_retry_at = 2 + 12.
C12_Witness ==
    \E g \in Guids :
        /\ streak[g] = 3 /\ RetryIndex(retry_queue, g) # 0
        /\ RetryRow(retry_queue, g).retry_count = 2
        /\ RetryRow(retry_queue, g).last_attempt_at = 2
        /\ RetryRow(retry_queue, g).next_retry_at = 14

\* C13 (as claimed): a guid that failed 4 times in a row, against the
\* schedule of length 4, has no RetryEntry and no ProcessedRecord.
C13_AbandonedAtFourth ==
    \A g \in Guids :
        streak[g] = 4 => (~HasRetryEntry(g) /\ ~HasRecord(g))

\* C13 (amended): after its 4th failure in a row a guid still has its
\* RetryEntry, at attempt 3 and due 24 hours after that failure; the 5th
\* failure in a row deletes the RetryEntry; in both cases the guid has no
\* ProcessedRecord.
C13_AbandonedAtFifth ==
    \A g \in Guids :
        /\ streak[g] = 4 =>
              /\ HasRetryEntry(g) /\ ~HasRecord(g) /\ abandoned[g] = NoInt
              /\ RetryRow(retry_queue, g).retry_count = 3
              /\ RetryRow(retry_queue, g).next_retry_at
                    = RetryRow(retry_queue, g).last_attempt_at + 24
        /\ streak[g] = 5 => (~HasRetryEntry(g) /\ ~HasRecord(g) /\ abandoned[g] # NoInt)

\* C13 witness: a guid has failed five times in a row and its RetryEntry is
\* gone, while the other guid, after four, is still queued.
C13_Witness ==
    \E g, h \in Guids :
        /\ streak[g] = 5 /\ ~HasRetryEntry(g) /\ abandoned[g] # NoInt
        /\ streak[h] = 4 /\ HasRetryEntry(h)

\* C14: once add_to_retry_queue has deleted a guid's RetryEntry because the
\* attempt count reached the schedule length, no later run hands that guid
\* to the external processor and the guid never has a RetryEntry again.
C14_AbandonedForGood ==
    /\ \A r \in Runs :
          pc[r] = "skill" => abandoned[CurrentEntry(r).guid] \in {NoInt, invocations}
    /\ \A g \in Guids : abandoned[g] # NoInt => ~HasRetryEntry(g)

\* C15: get_retry_candidates at time now returns exactly the rows of the
\* retry queue with next_retry_at <= now, each once, in ascending order of
\* next_retry_at; a row with a later next_retry_at (such as the row a first
\* failure has just inserted) is not returned.
C15_RetryCandidatesDue ==
    LET c == get_retry_candidates(retry_queue, now)
        due == {i \in 1..Len(retry_queue) : retry_queue[i].next_retry_at <= now}
    IN  /\ {c[i] : i \in 1..Len(c)} = {retry_queue[i] : i \in due}
        /\ Len(c) = Cardinality(due)
        /\ \A i, j \in 1..Len(c) : i < j => c[i].next_retry_at <= c[j].next_retry_at
        /\ \A i \in 1..Len(retry_queue) :
              retry_queue[i].last_attempt_at = now =>
                  \A j \in 1..Len(c) : c[j] # retry_queue[i]

\* C15 witness: two rows are due and come back in the order of their due
\* times, which is the reverse of their order in the table.
C15_Witness ==
    LET c == get_retry_candidates(retry_queue, now)
    IN  /\ Len(c) = 2 /\ Len(retry_queue) = 2
        /\ c[1] = retry_queue[2] /\ c[2] = retry_queue[1]
        /\ c[1].next_retry_at < c[2].next_retry_at

\* What a run found: the new entries, then the due retries.
Candidates(r) == run[r].new_entries \o run[r].retry_entries

\* The guids of the candidates the limit cut off.
CutOffGuids(r) ==
    {Candidates(r)[i].guid : i \in (Len(run[r].all_entries) + 1)..Len(Candidates(r))}

\* What the store holds about a guid.
StoreRows(pe, rq, guid) ==
    LET OfGuid(row) == row.entry_guid = guid
    IN  <<SelectSeq(pe, OfGuid), SelectSeq(rq, OfGuid)>>

\* C16 (the list): a run with limit L that found n new entries and r due
\* retries works on the first min(L, n+r) elements of new-entries-then-
\* retries and visits exactly those.
C16_LimitTakesPrefix ==
    \A r \in Runs :
        (pc[r] \in {"loop", "skill", "complete"} /\ run[r].limit # NoInt) =>
            LET m == IF run[r].limit < Len(Candidates(r))
                       THEN run[r].limit ELSE Len(Candidates(r))
            IN  /\ run[r].all_entries = SubSeq(Candidates(r), 1, m)
                /\ pc[r] = "complete" => run[r].idx = m + 1

\* C16: in addition, no step of the run changes what the store holds about
\* a candidate that the limit cut off.
C16_LimitLeavesRestUntouched ==
    /\ []C16_LimitTakesPrefix
    /\ [][\A r \in Runs :
            pc[r] \in {"loop", "skill"} =>
                \A g \in CutOffGuids(r) :
                    StoreRows(processed_entries', retry_queue', g)
                        = StoreRows(processed_entries, retry_queue, g)]_vars

\* The run has just finished an item for which run_skill was called.
ItemDone(r) == pc[r] = "skill" /\ pc'[r] # "skill"

\* The guids the run processed successfully (a note's path names its guid).
ProcessedBy(r) ==
    {run[r].result.created_notes[i] : i \in 1..Len(run[r].result.created_notes)}

\* C17: when a run processes successfully a guid that is in the retry queue,
\* the run's retried count grows by exactly one for it and the guid gets a
\* ProcessedRecord; at the end of the run every guid the run processed has
\* a ProcessedRecord and no RetryEntry.
C17_RetrySuccessClearsQueue ==
    /\ [][\A r \in Runs :
            (ItemDone(r) /\ run'[r].result.processed = run[r].result.processed + 1
                /\ HasRetryEntry(CurrentEntry(r).guid)) =>
                    /\ run'[r].result.retried = run[r].result.retried + 1
                    /\ is_processed(processed_entries', CurrentEntry(r).guid)]_vars
    /\ [](\A r \in Runs :
            pc[r] = "complete" =>
                \A g \in ProcessedBy(r) : HasRecord(g) /\ ~HasRetryEntry(g))

\* C18: when the processor's outcome for an item is a failure that is not
\* permanent, or run_skill raises, the run leaves a RetryEntry for the guid
\* that carries the error message of that failure, adds one to failed,
\* appends the item with that message to the failure details, and creates
\* no ProcessedRecord.  (The failure that makes the queue give up is left
\* out: it deletes the RetryEntry.)
C18_TransientFailureQueued ==
    [][\A r \in Runs :
          (ItemDone(r) /\ run'[r].signal \in {"transient", "exception"}
              /\ ~GivesUp(retry_queue, CurrentEntry(r).guid)) =>
                LET g == CurrentEntry(r).guid
                    msg == ErrorMessage(run'[r].signal)
                IN  /\ RetryIndex(retry_queue', g) # 0
                    /\ RetryRow(retry_queue', g).last_error = msg
                    /\ run'[r].result.failed = run[r].result.failed + 1
                    /\ run'[r].result.failures
                          = Append(run[r].result.failures, <<CurrentEntry(r), msg>>)
                    /\ processed_entries' = processed_entries]_vars

\* C19: when the processor signals a permanent failure for an item, the run
\* adds one to permanent_failures, leaves failed as it is, and neither
\* inserts nor updates a RetryEntry.
C19_PermanentFailureNotQueued ==
    [][\A r \in Runs :
          (ItemDone(r) /\ run'[r].signal = "permanent") =>
              /\ run'[r].result.permanent_failures = run[r].result.permanent_failures + 1
              /\ run'[r].result.failed = run[r].result.failed
              /\ retry_queue' = retry_queue]_vars

\* What the item loop has counted so far.
Routed(res) == res.processed + res.failed + res.permanent_failures

C21_MissingCapabilityAborts ==
    /\ [](\A r \in Runs :
            run[r].missing_skills =>
                /\ pc[r] \in {"finally", "done"} /\ outcome[r] = "returned"
                /\ wrote[r] = {} /\ run[r].run_id = NoInt /\ run[r].all_entries = << >>
                /\ ~Passed(r, "run_start") /\ ~Passed(r, "fetch") /\ ~Passed(r, "item")
                /\ lastCall.by # r)
    /\ [][\A r \in Runs :
            (run'[r].missing_skills /\ pc'[r] # pc[r]) =>
                UNCHANGED <<processed_entries, retry_queue, pipeline_runs>>]_vars

\* C21 witness: the second run of a process found a skill missing and
\* returned; the only RunRecord is the one of its first run.
C21_Witness ==
    \E r \in Runs :
        /\ run[r].missing_skills /\ pc[r] = "done" /\ invocations = 2
        /\ Len(pipeline_runs) = 1 /\ hist[r] = <<"acquire", "validate">>

\* C22: what run_pipeline hands its caller when it aborted on a missing
\* capability (the way it ended and the result) differs from what it hands
\* the caller when it completed with no candidate at all.
C22_MissingCapabilitySignalled ==
    \A r, q \in Runs :
        (/\ run[r].missing_skills /\ pc[r] \in {"finally", "done"}
         /\ pc[q] = "finally" /\ Passed(q, "complete") /\ run[q].all_entries = << >>)
            => <<outcome[r], run[r].result>> # <<outcome[q], run[q].result>>

\* C23: when run_pipeline is about to return, the RunRecord it created has
\* status completed, with items_processed and items_failed equal to the
\* processed and failed counts it returns.
C23_RunRecordCompleted ==
    \A r \in Runs :
        (pc[r] = "finally" /\ outcome[r] = "returned" /\ run[r].run_id # NoInt) =>
            /\ pipeline_runs[run[r].run_id].status = "completed"
            /\ pipeline_runs[run[r].run_id].items_processed = run[r].result.processed
            /\ pipeline_runs[run[r].run_id].items_failed = run[r].result.failed

\* C24: on any table of RunRecords, record_run_complete(id, processed,
\* failed) turns the record with that id from running to completed with the
\* time and the counts and leaves every other record as it is; called on a
\* record that is completed already it changes nothing.
C24_CompleteOnlyRunning ==
    \A id \in 1..Len(pipeline_runs), processed \in 0..1, failed \in 0..1 :
        LET after == record_run_complete(pipeline_runs, id, processed, failed, now)
        IN  /\ Len(after) = Len(pipeline_runs)
            /\ \A j \in 1..Len(after) : j # id => after[j] = pipeline_runs[j]
            /\ pipeline_runs[id].status = "running" =>
                  after[id] = [status |-> "completed", completed_at |-> now,
                               items_processed |-> processed, items_failed |-> failed]
            /\ pipeline_runs[id].status = "completed" => after[id] = pipeline_runs[id]

\* C25: record_run_complete called with an id that no RunRecord has signals
\* an error.
C25_CompleteUnknownIdFails ==
    \A id \in 1..(MaxInvocations + 1) :
        id > Len(pipeline_runs) => record_run_complete_raises(pipeline_runs, id)

\* C26: mark_processed fails with the duplicate-guid error exactly on the
\* guids that have a ProcessedRecord, and then processed_entries stays as it
\* is; on any other guid it adds one ProcessedRecord, after which
\* is_processed is true of that guid and as before of the others; no guid
\* ever has two ProcessedRecords, and is_processed becomes true of a guid
\* only by a mark_processed of that guid.
C26_MarkProcessedUnique ==
    /\ [](\A g \in Guids :
            /\ RecordCount(g) <= 1
            /\ mark_processed_raises(processed_entries, g) <=> HasRecord(g)
            /\ is_processed(processed_entries, g) <=> HasRecord(g)
            /\ ~HasRecord(g) =>
                  LET after == mark_processed(processed_entries, g, g)
                  IN  /\ Len(after) = Len(processed_entries) + 1
                      /\ is_processed(after, g)
                      /\ \A h \in Guids \ {g} :
                            is_processed(after, h) <=> is_processed(processed_entries, h))
    /\ [][\A r \in Runs :
            (ItemDone(r) /\ run'[r].signal = "success") =>
                IF HasRecord(CurrentEntry(r).guid)
                  THEN processed_entries' = processed_entries
                  ELSE /\ Len(processed_entries') = Len(processed_entries) + 1
                       /\ processed_entries'[Len(processed_entries')].entry_guid
                             = CurrentEntry(r).guid]_vars
    /\ [][\A g \in Guids :
            (is_processed(processed_entries', g) /\ ~is_processed(processed_entries, g)) =>
                \E r \in Runs :
                    ItemDone(r) /\ CurrentEntry(r).guid = g /\ run'[r].signal = "success"]_vars

\* C26 witness: a run's mark_processed met the ProcessedRecord another run
\* had inserted meanwhile; the guid still has exactly one.
C26_Witness ==
    \E r \in Runs :
        /\ pc[r] = "loop" /\ run[r].signal = "success" /\ run[r].result.processed = 0
        /\ run[r].result.failed = 1
        /\ RecordCount(run[r].result.failures[1][1].guid) = 1

\* C27: a duplicate-guid error of mark_processed inside the item loop ends
\* run_pipeline with that error; the guid is not put in the retry queue.
C27_DuplicateGuidSurfaced ==
    [][\A r \in Runs :
          (ItemDone(r) /\ run'[r].signal = "success"
              /\ mark_processed_raises(processed_entries, CurrentEntry(r).guid)) =>
                /\ outcome'[r] = "raised"
                /\ retry_queue' = retry_queue]_vars

\* C28: get_last_successful_run returns nothing exactly when no RunRecord
\* is completed; otherwise it returns the completion time of a completed
\* RunRecord that no completed RunRecord exceeds, whatever RunRecords are
\* still running; the value a run reads is such a completion time.
C28_LastSuccessfulRun ==
    LET last == get_last_successful_run(pipeline_runs)
        done == {i \in 1..Len(pipeline_runs) : pipeline_runs[i].status = "completed"}
    IN  /\ (done = {}) <=> (last = NoInt)
        /\ \A i \in done : pipeline_runs[i].completed_at <= last
        /\ done # {} => \E i \in done : pipeline_runs[i].completed_at = last
        /\ \A r \in Runs :
              run[r].last_run # NoInt =>
                  \E i \in done : pipeline_runs[i].completed_at = run[r].last_run

\* C28 witness: runs completed at hours 0 and 1, a third run read hour 1
\* and its own RunRecord is running.
C28_Witness ==
    \E r \in Runs, i, j, k \in 1..Len(pipeline_runs) :
        /\ run[r].last_run = 1 /\ get_last_successful_run(pipeline_runs) = 1
        /\ pipeline_runs[i].status = "completed" /\ pipeline_runs[i].completed_at = 0
        /\ pipeline_runs[j].status = "completed" /\ pipeline_runs[j].completed_at = 1
        /\ pipeline_runs[k].status = "running" /\ i < j

\* C29 (the notification): every run that got as far as its candidates and
\* returned, a dry run included, has sent exactly one end-of-run
\* notification.
C29_OneNotification ==
    \A r \in Runs :
        (pc[r] = "done" /\ outcome[r] = "returned" /\ Passed(r, "fetch")) =>
            run[r].notifications = 1

\* C30: a dry run never enters the item loop and never has the processor
\* called; it returns with skipped equal to the number of candidates left
\* after the limit, and processed, failed, retried and permanent_failures 0.
C30_DryRunPreview ==
    \A r \in Runs :
        run[r].dry_run =>
            /\ pc[r] \notin {"loop", "skill", "complete"}
            /\ ~Passed(r, "item") /\ lastCall.by # r
            /\ run[r].result.processed = 0 /\ run[r].result.failed = 0
            /\ run[r].result.retried = 0 /\ run[r].result.permanent_failures = 0
            /\ (pc[r] = "finally" /\ Passed(r, "fetch")) =>
                  /\ outcome[r] = "returned"
                  /\ run[r].result.skipped = Len(run[r].all_entries)
                  /\ run[r].all_entries =
                        SubSeq(Candidates(r), 1,
                               IF run[r].limit # NoInt /\ run[r].limit < Len(Candidates(r))
                                 THEN run[r].limit ELSE Len(Candidates(r)))
            /\ ~Passed(r, "fetch") => run[r].result.skipped = 0

\* C30 witness: a dry run with limit 1 found a new entry and a due retry
\* and is returning skipped = 1.
C30_Witness ==
    \E r \in Runs :
        /\ run[r].dry_run /\ pc[r] = "finally" /\ run[r].limit = 1
        /\ Len(run[r].new_entries) = 1 /\ Len(run[r].retry_entries) = 1
        /\ run[r].result.skipped = 1

\* C31: run_skill returns success only when the command exited with code 0,
\* a note path was extracted from its output and that file exists (and then
\* the result carries that path); on a timeout, a missing CLI, a non-zero
\* exit, no extractable path or a missing file it raises nothing and returns
\* a failure with no note_path and a non-empty error message.
C31_RunSkillResult ==
    LET x == skillCall.execution
        res == skillCall.result
        ok == /\ x.launch = "exited" /\ x.returncode = 0
              /\ extract_note_path(x.stdout) # None /\ x.exists
        listed == \/ x.launch \in {"TimeoutExpired", "FileNotFoundError"}
                  \/ x.launch = "exited" /\ ~ok
    IN  x.launch # None =>
            /\ res.success <=> ok
            /\ res.success =>
                  /\ res.raised = None /\ res.error = None
                  /\ res.note_path = extract_note_path(x.stdout)
            /\ listed =>
                  /\ res.raised = None /\ ~res.success /\ res.note_path = None
                  /\ res.error \notin {None, ""}

\* C31 witness: the command exited with code 0 and named a note that is not
\* there; run_skill returned a failure.
C31_Witness ==
    /\ skillCall.execution.launch = "exited" /\ skillCall.execution.returncode = 0
    /\ extract_note_path(skillCall.execution.stdout) # None
    /\ ~skillCall.execution.exists
    /\ ~skillCall.result.success /\ skillCall.result.raised = None
    /\ skillCall.result.error
          = "Skill reported creating note but file not found: Clippings/Title.md"

RECURSIVE Flatten(_)
\* The batches laid end to end.
Flatten(bs) == IF bs = << >> THEN << >> ELSE bs[1] \o Flatten(Tail(bs))

\* C35: post-processing cuts the notes created in the run, in creation
\* order, into consecutive batches of at most 6 (none of them empty) that
\* put end to end give back the list of notes, so every note is in exactly
\* one batch; whatever the outcome of a batch, the next one is attempted, and
\* the stage is left only after the last batch; no step of the stage changes
\* the counts of the run or the store.
C35_PostProcessBatches ==
    /\ [](\A r \in Runs :
            pc[r] = "post" =>
                /\ Flatten(run[r].batches) = run[r].result.created_notes
                /\ \A k \in 1..Len(run[r].batches) :
                      Len(run[r].batches[k]) \in 1..6
                /\ run[r].batch_idx \in 1..Len(run[r].batches))
    /\ [][\A r \in Runs :
            /\ pc[r] = "post" =>
                  /\ run'[r].batch_idx = run[r].batch_idx + 1
                  /\ run'[r].batches = run[r].batches
                  /\ outcome'[r] = outcome[r]
                  /\ pc'[r] = IF run[r].batch_idx < Len(run[r].batches)
                                THEN "post" ELSE "complete"
            /\ (pc[r] = "post" \/ pc'[r] = "post") =>
                  /\ run'[r].result = run[r].result
                  /\ UNCHANGED storeVars]_vars

\* C35 witness: thirteen notes were cut into batches of 6, 6 and 1; the
\* second batch timed out and the third is being attempted.
C35_Witness ==
    \E r \in Runs :
        /\ pc[r] = "post" /\ Len(run[r].result.created_notes) = 13
        /\ Len(run[r].batches) = 3 /\ Len(run[r].batches[3]) = 1
        /\ run[r].batch_idx = 3 /\ run[r].signal = "TimeoutExpired"

\* The phases of a run in the order of the code.
PhaseOrder ==
    <<"acquire", "force_override", "validate", "run_start", "fetch", "item", "post",
      "complete", "notify">>
Rank(phase) == CHOOSE i \in 1..Len(PhaseOrder) : PhaseOrder[i] = phase

\* The tables of the store.
Tables == <<processed_entries, retry_queue, pipeline_runs>>

C33_ProcessedCandidateSkipped ==
    [][\A r \in Runs :
          (/\ pc[r] = "loop" /\ run[r].idx <= Len(run[r].all_entries)
           /\ run'[r] # run[r]
           /\ is_processed(processed_entries, CurrentEntry(r).guid)) =>
                /\ RetryIndex(retry_queue', CurrentEntry(r).guid) = 0
                /\ pc'[r] = "loop" /\ outcome'[r] = outcome[r] /\ lastCall' = lastCall
                /\ run'[r].result = run[r].result
                /\ run'[r].idx = run[r].idx + 1]_vars

\* C34: when the outcome of the last item of a run is a permanent failure,
\* the loop ends with no RetryEntry for that item's guid (so none exists at
\* the end of the run), whether the item was a new entry or a due retry.
C34_PermanentExcludedFromRetry ==
    \A r \in Runs :
        (/\ pc[r] = "loop" /\ run[r].idx = Len(run[r].all_entries) + 1
         /\ run[r].signal = "permanent") =>
              ~HasRetryEntry(run[r].all_entries[Len(run[r].all_entries)].guid)

\* The number of rows retry_queue has for the guid.
RetryCount(guid) ==
    Cardinality({i \in 1..Len(retry_queue) : retry_queue[i].entry_guid = guid})

\* C36: after any sequence of add_to_retry_queue and remove_from_retry_queue
\* calls, retry_queue has at most one row per guid, the attempt counter of
\* every row is within 0..K-1 for the schedule of length K, its next_retry_at
\* is the last attempt plus the schedule's duration at that counter (the
\* index is in range), and as long as a guid keeps its row the counter does
\* not decrease.
C36_RetryRowsWellFormed ==
    /\ [](/\ \A g \in Guids : RetryCount(g) <= 1
          /\ \A i \in 1..Len(retry_queue) :
                /\ retry_queue[i].entry_guid \in Guids
                /\ retry_queue[i].retry_count \in 0..(Len(BACKOFF_HOURS) - 1)
                /\ retry_queue[i].retry_count + 1 \in DOMAIN BACKOFF_HOURS
                /\ retry_queue[i].next_retry_at
                      = retry_queue[i].last_attempt_at
                          + BACKOFF_HOURS[retry_queue[i].retry_count + 1])
    /\ [][\A g \in Guids :
            (HasRetryEntry(g) /\ RetryIndex(retry_queue', g) # 0) =>
                RetryRow(retry_queue', g).retry_count >= RetryRow(retry_queue, g).retry_count]_vars

\* C36 witness: one guid is at the last attempt of the schedule, the other
\* one's row was deleted when it ran out of attempts.
C36_Witness ==
    \E g, h \in Guids :
        /\ g # h /\ Len(retry_queue) = 1
        /\ RetryIndex(retry_queue, g) # 0
        /\ RetryRow(retry_queue, g).retry_count = Len(BACKOFF_HOURS) - 1
        /\ abandoned[h] # NoInt /\ ~HasRetryEntry(h)

\* C37: a process that terminated without release() holds the lock no more:
\* an acquire() is refused only while a live process has the lock, and is
\* granted otherwise, whatever pid the lock file contains.
C37_DeadHolderFreesLock ==
    /\ [](\A h \in Handles : lpos[h] \in Dead => (h \notin flockHeld /\ fd[h] = None))
    /\ [][\A x \in Handles :
            (lpos[x] = "opened" /\ lpos'[x] \notin {"opened"} \cup Dead) =>
                IF \E h \in Handles \ {x} : h \in flockHeld /\ lpos[h] \notin Dead /\ fd[h] # None
                  THEN lpos'[x] = "denied"
                  ELSE lpos'[x] = "locked" /\ flockHeld' = {x}]_vars

\* C37 witness: the holder died with the lock, its pid written; another process has
\* been granted the lock while the file still holds the dead one's pid.
C37_Witness ==
    \E h, x \in Handles :
        /\ h # x /\ lpos[h] = "dead_holding" /\ lockFile = str(getpid[h])
        /\ lpos[x] = "locked" /\ flockHeld = {x} /\ ~lockErr[x].raised

\* The guids on which the run has called run_skill and recorded the outcome:
\* every call ends in a created note or in a failure detail.
InvokedGuids(r) ==
    ProcessedBy(r) \cup {run[r].result.failures[i][1].guid : i \in 1..Len(run[r].result.failures)}

\* The add_to_retry_queue calls the run has made for the guid (one per
\* failure detail).
FailuresOf(r, guid) ==
    Cardinality({i \in 1..Len(run[r].result.failures) : run[r].result.failures[i][1].guid = guid})

\* C38: within one run the processor is called at most once per guid, and
\* the run advances the attempt counter of a guid (one add_to_retry_queue
\* call) at most once.
C38_OncePerGuidPerRun ==
    \A r \in Runs :
        /\ pc[r] = "skill" => CurrentEntry(r).guid \notin InvokedGuids(r)
        /\ \A g \in Guids : FailuresOf(r, g) <= 1

\* C39: if non-dry runs keep recurring, no guid stays a due retry for ever:
\* each guid is, again and again, out of the queue or not due (a due
\* RetryEntry is taken up by some run, which resolves it, abandons it or
\* schedules it anew), with or without a limit, whatever the feed lists.
C39_DueRetryNotPostponedForever ==
    \A g \in Guids : []<>(~DueRow(g))

\* C40: from the start of a run's loop to its end, failed is the number of
\* failure details, processed the number of created notes, retried is at
\* most processed, and processed + failed + permanent_failures is at most
\* the number of candidates visited so far; the notification never fails on
\* reading the first failure.
C40_CountsConsistent ==
    /\ [](\A r \in Runs :
            LET res == run[r].result IN
            /\ res.failed = Len(res.failures)
            /\ res.processed = Len(res.created_notes)
            /\ res.retried <= res.processed
            /\ pc[r] \in {"loop", "skill", "post", "complete", "notify"} =>
                  /\ Routed(res) <= run[r].idx - 1
                  /\ run[r].idx - 1 <= Len(run[r].all_entries)
            /\ (pc[r] = "notify" /\ ReadsFirstFailure(res)) => res.failures # << >>)
    /\ [][\A r \in Runs :
            (pc[r] = "notify" /\ pc'[r] # "notify") => outcome'[r] = "returned"]_vars

\* C40 witness: a run with one failure and one retried success has sent its
\* notification, which named the first failure.
C40_Witness ==
    \E r \in Runs :
        /\ pc[r] = "finally" /\ run[r].notifications = 1 /\ outcome[r] = "returned"
        /\ run[r].result.failed = 1 /\ run[r].result.processed = 1
        /\ run[r].result.retried = 1 /\ Len(run[r].result.failures) = 1
        /\ ReadsFirstFailure(run[r].result)

====
